---- MODULE Spec2Model ----
(***************************************************************************)
(* Model of patch_resolution.py: the resolution patcher of the game        *)
(* executable.  The executable is a byte buffer of several megabytes; the  *)
(* model keeps its length and the bytes at the addresses the patcher can   *)
(* read or write (the six descriptor ranges and one guard byte on each     *)
(* side of them).  Every other byte is never read nor written by the code. *)
(***************************************************************************)
EXTENDS Integers, Sequences, FiniteSets, TLC

VARIABLES
    file,      \* contents of args.exe_path on disk, or NoFile
    backup,    \* contents of exe_path.with_suffix('.exe.backup'), or NoFile
    pc,        \* position of the running main(): exit, read, planned, applied, backed
    args,      \* parsed command line of the current run
    data,      \* the bytearray `data` of main
    patches,   \* the list `patches` of main
    skips,     \* offsets named by the WARNING lines create_patches printed
    status,    \* outcome of main: "running", "return 0", "return 1", or the
               \* "struct.error" that struct.pack raises out of create_patches
    events,    \* what the current run has done so far
    runs,      \* number of runs of main started
    todo       \* (ordering study only) indices of patches not yet applied

vars == <<file, backup, pc, args, data, patches, skips, status, events, runs, todo>>

----------------------------------------------------------------------------
(* Bounds *)

\* number of successive invocations of the script on the same directory
MaxRuns == 2

\* bytes of the executable after the end of the resolution table entry
MaxTail == 1

----------------------------------------------------------------------------
(* Values *)

\* a path at which no file exists
NoFile == [len |-> -1]

\* what the model keeps at a tracked address that is past the end of a buffer
NoByte == (-1)

Min(a, b) == IF a < b THEN a ELSE b
Max(a, b) == IF a < b THEN b ELSE a

\* struct.pack('<I', v): four bytes, least significant first; struct.error
\* for a value outside 0 .. 2^32-1
InRange(v) == v >= 0 /\ v \div 65536 < 65536

pack(v) ==
    <<v % 256, (v \div 256) % 256, (v \div 65536) % 256, (v \div 16777216) % 256>>

orig_width == pack(3840)
orig_height == pack(2160)

table_offset == 12428528

\* (variant) the width getter placed on the last byte of the height getter
code_patches_overlap(target_width, target_height) ==
    << <<347450, orig_width, pack(target_width), "Width getter (mov eax, 3840)">>,
       <<4932357, orig_width, pack(target_width), "Resolution param width (mov edx, 3840)">>,
       <<347447, orig_height, pack(target_height), "Height getter (mov eax, 2160)">>,
       <<4932363, orig_height, pack(target_height), "Resolution param height (mov r8d, 2160)">> >>

\* the list code_patches of create_patches: offset, orig, new, desc
code_patches(target_width, target_height) ==
    << <<347639, orig_width, pack(target_width), "Width getter (mov eax, 3840)">>,
       <<4932357, orig_width, pack(target_width), "Resolution param width (mov edx, 3840)">>,
       <<347447, orig_height, pack(target_height), "Height getter (mov eax, 2160)">>,
       <<4932363, orig_height, pack(target_height), "Resolution param height (mov r8d, 2160)">> >>

Patch(offset, original, replacement, description) ==
    [offset |-> offset, original |-> original,
     replacement |-> replacement, description |-> description]

\* the two fields of the resolution table entry, as create_patches builds them
table_patches(target_width, target_height) ==
    << Patch(table_offset, orig_width, pack(target_width), "Resolution table (width)"),
       Patch(table_offset + 4, orig_height, pack(target_height), "Resolution table (height)") >>

\* all six descriptors, in the order create_patches examines them
Descriptors(target_width, target_height) ==
    table_patches(target_width, target_height) \o
    [i \in 1..4 |->
        LET c == code_patches(target_width, target_height)[i]
        IN  Patch(c[1], c[2], c[3], c[4])]

\* addresses the model keeps: every descriptor range with one guard byte
\* before and after it
Tracked ==
    UNION { (Descriptors(0, 0)[i].offset - 1) .. (Descriptors(0, 0)[i].offset + 4)
            : i \in 1..6 }

----------------------------------------------------------------------------
(* Byte buffers: [len, at], at[x] = NoByte for x >= len *)

\* data[a:b] for 0 <= a <= b: indices are clamped to the length
Slice(d, a, b) ==
    LET start == Min(a, d.len)
        stop  == Max(start, Min(b, d.len))
    IN  [i \in 1..(stop - start) |-> d.at[start + i - 1]]

\* data[a:b] = r on a bytearray: the clamped range is replaced by r
SliceAssign(d, a, b, r) ==
    LET start == Min(a, d.len)
        stop  == Max(start, Min(b, d.len))
        shift == Len(r) - (stop - start)
        newlen == d.len + shift
    IN  [len |-> newlen,
         at  |-> [x \in Tracked |->
                    IF x < start THEN d.at[x]
                    ELSE IF x < start + Len(r) THEN r[x - start + 1]
                    ELSE IF x >= newlen THEN NoByte
                    ELSE d.at[x - shift]]]

----------------------------------------------------------------------------
(* create_patches *)

\* (variant) only the low 16 bits are compared
MatchLowHalf(d, offset, orig) == Slice(d, offset, offset + 2) = SubSeq(orig, 1, 2)

\* (variant) the bytes present are compared with the start of orig
MatchPrefix(d, offset, orig) ==
    LET s == Slice(d, offset, offset + 4) IN s = SubSeq(orig, 1, Len(s))

\* the test `data[offset:offset + 4] == orig`
Match(d, offset, orig) == Slice(d, offset, offset + 4) = orig

create_patches(d, target_width, target_height) ==
    LET tp == table_patches(target_width, target_height)
        cp == code_patches(target_width, target_height)
        hit == SelectSeq(cp, LAMBDA c : Match(d, c[1], c[2]))
    IN  (IF Match(d, table_offset, orig_width) THEN <<tp[1]>> ELSE <<>>) \o
        (IF Match(d, table_offset + 4, orig_height) THEN <<tp[2]>> ELSE <<>>) \o
        [i \in 1..Len(hit) |-> Patch(hit[i][1], hit[i][2], hit[i][3], hit[i][4])]

\* offsets of the "WARNING: Mismatch at ..., skipping" lines it prints
create_patches_warnings(d, target_width, target_height) ==
    LET cp == code_patches(target_width, target_height)
        miss == SelectSeq(cp, LAMBDA c : ~Match(d, c[1], c[2]))
    IN  [i \in 1..Len(miss) |-> miss[i][1]]

----------------------------------------------------------------------------
(* apply_patches *)

\* (variant) the replacement is written one byte too far
apply_one_shifted(d, patch, dry_run) ==
    IF ~dry_run
    THEN SliceAssign(d, patch.offset + 1, patch.offset + 1 + Len(patch.replacement),
                     patch.replacement)
    ELSE d

\* (variant) dry_run is not consulted
apply_one_always(d, patch, dry_run) ==
    SliceAssign(d, patch.offset, patch.offset + Len(patch.replacement),
                patch.replacement)

\* (variant) the original bytes are written back
apply_one_original(d, patch, dry_run) ==
    IF ~dry_run
    THEN SliceAssign(d, patch.offset, patch.offset + Len(patch.original),
                     patch.original)
    ELSE d

\* one iteration of the loop of apply_patches
apply_one(d, patch, dry_run) ==
    IF ~dry_run
    THEN SliceAssign(d, patch.offset, patch.offset + Len(patch.replacement),
                     patch.replacement)
    ELSE d

RECURSIVE apply_patches(_, _, _)
apply_patches(d, ps, dry_run) ==
    IF ps = <<>> THEN d
    ELSE apply_patches(apply_one(d, Head(ps), dry_run), Tail(ps), dry_run)

----------------------------------------------------------------------------
(* Inputs *)

Widths == {-1, 3840, 5120}
Heights == {2160, 2880}

Args == [width : Widths, height : Heights, dry_run : BOOLEAN, no_backup : BOOLEAN]

\* lengths of the executable: empty, cut inside the first code site, cut
\* between the two table fields, and complete with 0..MaxTail bytes after
\* the table entry
Lens == {0, 347449, table_offset + 4} \cup
        { table_offset + 8 + k : k \in 0..MaxTail }

\* descriptor i of a damaged build differs from the expected bytes in one
\* byte, at a position that depends on i
Damage(i, k, b) == IF k = (i % 4) + 1 THEN (b + 1) % 256 ELSE b

\* an executable of length n whose descriptors in `bad` are damaged; the
\* bytes around the descriptors are 0x90
Image(n, bad) ==
    LET ds == Descriptors(0, 0)
        byte(x) ==
            IF \E i \in 1..6 : x - ds[i].offset \in 0..3
            THEN LET i == CHOOSE j \in 1..6 : x - ds[j].offset \in 0..3
                     k == x - ds[i].offset + 1
                 IN  IF i \in bad THEN Damage(i, k, ds[i].original[k])
                     ELSE ds[i].original[k]
            ELSE 144
    IN  [len |-> n, at |-> [x \in Tracked |-> IF x < n THEN byte(x) ELSE NoByte]]

Images == { Image(n, bad) : n \in Lens, bad \in SUBSET (1..6) }

EmptyBuffer == [len |-> 0, at |-> [x \in Tracked |-> NoByte]]

----------------------------------------------------------------------------
(* main *)

Init ==
    /\ file \in Images \cup {NoFile}
    /\ backup \in {NoFile, EmptyBuffer}
    /\ pc = "exit"
    /\ args \in {[width |-> 5120, height |-> 2880, dry_run |-> FALSE, no_backup |-> FALSE]}
    /\ data = EmptyBuffer
    /\ patches = <<>>
    /\ skips = <<>>
    /\ status = "running"
    /\ events = {}
    /\ runs = 0
    /\ todo = {}

\* parse_args, the exists() test and the read of the file
MainStart ==
    /\ pc = "exit"
    /\ runs < MaxRuns
    /\ \E a \in Args : args' = a
    /\ runs' = runs + 1
    /\ events' = {}
    /\ patches' = <<>>
    /\ skips' = <<>>
    /\ IF file = NoFile
       THEN /\ status' = "return 1"
            /\ pc' = "exit"
            /\ data' = EmptyBuffer
       ELSE /\ status' = "running"
            /\ pc' = "read"
            /\ data' = file
    /\ UNCHANGED <<file, backup, todo>>

\* (variant) the `if not patches` test is missing
MainPlanNoCheck ==
    /\ pc = "read"
    /\ IF ~InRange(args.width) \/ ~InRange(args.height)
       THEN /\ status' = "struct.error"
            /\ pc' = "exit"
            /\ UNCHANGED <<patches, skips, events>>
       ELSE /\ patches' = create_patches(data, args.width, args.height)
            /\ skips' = create_patches_warnings(data, args.width, args.height)
            /\ events' = events \cup {"plan"}
            /\ status' = "running"
            /\ pc' = "planned"
    /\ UNCHANGED <<file, backup, args, data, runs, todo>>

\* patches = create_patches(bytes(data), ...) and the `if not patches` test
MainPlan ==
    /\ pc = "read"
    /\ IF ~InRange(args.width) \/ ~InRange(args.height)
       THEN /\ status' = "struct.error"
            /\ pc' = "exit"
            /\ UNCHANGED <<patches, skips, events>>
       ELSE /\ patches' = create_patches(data, args.width, args.height)
            /\ skips' = create_patches_warnings(data, args.width, args.height)
            /\ events' = events \cup {"plan"}
            /\ IF patches' = <<>>
               THEN status' = "return 1" /\ pc' = "exit"
               ELSE status' = "running" /\ pc' = "planned"
    /\ UNCHANGED <<file, backup, args, data, runs, todo>>

\* apply_patches(data, patches, args.dry_run) and the `if args.dry_run` test
MainApply ==
    /\ pc = "planned"
    /\ data' = apply_patches(data, patches, args.dry_run)
    /\ events' = events \cup {"apply"}
    /\ IF args.dry_run
       THEN status' = "return 0" /\ pc' = "exit"
       ELSE status' = "running" /\ pc' = "applied"
    /\ UNCHANGED <<file, backup, args, patches, skips, runs, todo>>

\* (variant) the test of --no-backup is inverted
MainBackupInverted ==
    /\ pc = "applied"
    /\ IF args.no_backup /\ backup = NoFile
       THEN backup' = file /\ events' = events \cup {"backup"}
       ELSE UNCHANGED <<backup, events>>
    /\ pc' = "backed"
    /\ UNCHANGED <<file, args, data, patches, skips, status, runs, todo>>

\* (variant) the backup is copied without the exists() test
MainBackupOverwrite ==
    /\ pc = "applied"
    /\ IF ~args.no_backup
       THEN backup' = file /\ events' = events \cup {"backup"}
       ELSE UNCHANGED <<backup, events>>
    /\ pc' = "backed"
    /\ UNCHANGED <<file, args, data, patches, skips, status, runs, todo>>

\* the `if not args.no_backup` block
MainBackup ==
    /\ pc = "applied"
    /\ IF ~args.no_backup /\ backup = NoFile
       THEN backup' = file /\ events' = events \cup {"backup"}
       ELSE UNCHANGED <<backup, events>>
    /\ pc' = "backed"
    /\ UNCHANGED <<file, args, data, patches, skips, status, runs, todo>>

\* open(exe_path, 'wb'), f.write(data), return 0
MainWrite ==
    /\ pc = "backed"
    /\ file' = data
    /\ events' = events \cup {"write"}
    /\ status' = "return 0"
    /\ pc' = "exit"
    /\ UNCHANGED <<backup, args, data, patches, skips, runs, todo>>

Next == MainStart \/ MainPlan \/ MainApply \/ MainBackup \/ MainWrite

Spec == Init /\ [][Next]_vars

----------------------------------------------------------------------------
(* The order of application: the accepted patches of a plan applied one at  *)
(* a time in an arbitrary order, each by one iteration of the loop of       *)
(* apply_patches.                                                           *)

OrderWidths == {1366, 5120}

InitOrder ==
    /\ file \in Images
    /\ backup = NoFile
    /\ pc = "planned"
    /\ args \in [width : OrderWidths, height : Heights,
                 dry_run : {FALSE}, no_backup : {FALSE}]
    /\ data = file
    /\ patches = create_patches(file, args.width, args.height)
    /\ skips = create_patches_warnings(file, args.width, args.height)
    /\ status = "running"
    /\ events = {"plan"}
    /\ runs = 1
    /\ todo = 1..Len(patches)

ApplyAny ==
    /\ pc = "planned"
    /\ \E i \in todo :
        /\ data' = apply_one(data, patches[i], args.dry_run)
        /\ todo' = todo \ {i}
    /\ UNCHANGED <<file, backup, pc, args, patches, skips, status, events, runs>>

NextOrder == ApplyAny

SpecOrder == InitOrder /\ [][NextOrder]_vars

----------------------------------------------------------------------------
(* Vocabulary of the properties *)

\* the plan ps contains the descriptor d
Accepts(ps, d) == \E i \in 1..Len(ps) : ps[i] = d

\* some patch of the plan ps is at offset o
AcceptsAt(ps, o) == \E i \in 1..Len(ps) : ps[i].offset = o

\* the four bytes of buffer b at [d.offset, d.offset+4) exist and equal the
\* expected original bytes of d, one by one
BytesEqual(b, d) ==
    \A k \in 1..4 :
        /\ d.offset + k - 1 < b.len
        /\ b.at[d.offset + k - 1] = d.original[k]

\* the descriptors of the current run
Ds == Descriptors(args.width, args.height)

\* create_patches has returned in this run and `data` is still the buffer
\* it examined
JustPlanned == "plan" \in events /\ "apply" \notin events

\* address x lies in the range of some patch of the plan ps
Covered(ps, x) == \E i \in 1..Len(ps) : x - ps[i].offset \in 0..3

----------------------------------------------------------------------------
(* C1: create_patches puts a descriptor in the returned list if and only   *)
(* if the four buffer bytes at [offset, offset+4) equal its expected        *)
(* original bytes one by one; it leaves the buffer as it was, and a second  *)
(* call on the same buffer returns the same list.                           *)
PlanAcceptsExactlyMatching ==
    JustPlanned =>
        /\ \A i \in 1..6 : Accepts(patches, Ds[i]) <=> BytesEqual(data, Ds[i])
        /\ \A i \in 1..Len(patches) : Accepts(Ds, patches[i])
        /\ create_patches(data, args.width, args.height) = patches

C1_PlanValidates ==
    /\ []PlanAcceptsExactlyMatching
    /\ [][pc = "read" => data' = data /\ file' = file]_vars

\* a plan that accepted some descriptors and refused a damaged in-bounds one
C1_Witness ==
    /\ JustPlanned
    /\ Len(patches) \in 1..5
    /\ \E i \in 1..6 : ~Accepts(patches, Ds[i]) /\ Ds[i].offset + 4 <= data.len

(* C2: every descriptor that fails validation is reported as skipped, so   *)
(* accepted patches plus reported skips are the six descriptors.            *)
C2_EverySkipReported ==
    "plan" \in events =>
        /\ Len(patches) + Len(skips) = 6
        /\ \A i \in 1..6 :
              ~Accepts(patches, Ds[i]) =>
                  \E j \in 1..Len(skips) : skips[j] = Ds[i].offset


(* C3: apply_patches with dry_run=False, on the plan create_patches made   *)
(* from the same buffer, changes only bytes inside the ranges              *)
(* [offset, offset+4) of the accepted patches and keeps the length.         *)
C3_ApplyFrame ==
    [][ (pc = "planned" /\ ~args.dry_run) =>
            /\ data'.len = data.len
            /\ \A x \in Tracked : ~Covered(patches, x) => data'.at[x] = data.at[x]
      ]_vars

\* a committed apply that changed the buffer while some descriptor was refused
C3_Witness ==
    /\ pc = "applied"
    /\ data # file
    /\ \E i \in 1..6 : ~Accepts(patches, Ds[i]) /\ Ds[i].offset + 4 <= data.len

(* C4: in dry-run mode nothing is modified: apply_patches with             *)
(* dry_run=True returns the buffer as it was (for the plan of the run, for  *)
(* each single descriptor and for all six, accepted or not), and a run of   *)
(* main with --dry-run writes neither the executable nor a backup.          *)
C4_DryRunInert ==
    /\ [](JustPlanned =>
            /\ apply_patches(data, patches, TRUE) = data
            /\ apply_patches(data, Ds, TRUE) = data
            /\ \A i \in 1..6 : apply_patches(data, <<Ds[i]>>, TRUE) = data)
    /\ [][(pc = "planned" /\ args.dry_run) => data' = data]_vars
    /\ [][args'.dry_run => file' = file /\ backup' = backup]_vars
    /\ []((runs > 0 /\ args.dry_run) => events \cap {"backup", "write"} = {})

\* a finished dry run of a plan that is not empty
C4_Witness ==
    /\ pc = "exit"
    /\ args.dry_run
    /\ "apply" \in events
    /\ status = "return 0"
    /\ patches # <<>>

(* C5, as stated: the write to the executable never happens before a       *)
(* backup exists.                                                           *)
C5_BackupBeforeWrite == "write" \in events => backup # NoFile

(* C5, amended: in a run without --no-backup, a backup file exists when    *)
(* the executable is overwritten, and a backup this run created is a copy   *)
(* of the executable as it was before the write.                            *)
C5_BackupUnlessDisabled ==
    [][ (pc = "backed" /\ pc' = "exit" /\ ~args.no_backup) =>
            /\ backup # NoFile
            /\ "backup" \in events => backup = file
      ]_vars

\* a run created the backup and then wrote a changed executable
C5_Witness ==
    /\ "backup" \in events
    /\ "write" \in events
    /\ ~args.no_backup
    /\ file # backup

(* C6: a backup that exists is never replaced, whatever the mode and over  *)
(* any sequence of runs; a backup is only created when there is none.       *)
C6_BackupNeverReplaced == [][backup # NoFile => backup' = backup]_vars

\* a second committing run found the backup of the first and left it alone
C6_Witness ==
    /\ runs = 2
    /\ pc = "exit"
    /\ "write" \in events
    /\ "backup" \notin events
    /\ ~args.no_backup
    /\ backup \notin {NoFile, EmptyBuffer, file}

(* C7, as stated: after the plan is committed, create_patches on the       *)
(* mutated buffer with the same target accepts none of the descriptors it   *)
(* accepted before, for every target width and height.                      *)
C7_NoneAcceptedAgain ==
    pc = "applied" =>
        \A i \in 1..Len(patches) :
            ~AcceptsAt(create_patches(data, args.width, args.height),
                       patches[i].offset)

(* C7, amended: after the plan is committed, create_patches on the mutated *)
(* buffer accepts a previously accepted descriptor again exactly when its   *)
(* replacement bytes equal its original bytes (target width 3840 or target  *)
(* height 2160).                                                            *)
C7_AcceptedAgainOnlyIfIdentity ==
    pc = "applied" =>
        \A i \in 1..Len(patches) :
            AcceptsAt(create_patches(data, args.width, args.height),
                      patches[i].offset)
            <=> patches[i].replacement = patches[i].original

\* a committed plan with a patch that changes bytes and one that does not
C7_Witness ==
    /\ pc = "applied"
    /\ \E i \in 1..Len(patches) : patches[i].replacement # patches[i].original
    /\ \E i \in 1..Len(patches) : patches[i].replacement = patches[i].original

(* C8: for a buffer of any length create_patches returns normally, accepts *)
(* no descriptor whose range [offset, offset+4) passes the end of the       *)
(* buffer, and accepts every in-bounds descriptor whose bytes match.        *)
C8_OutOfBoundsSkipped ==
    /\ status = "struct.error" => ~InRange(args.width) \/ ~InRange(args.height)
    /\ (/\ runs > 0
        /\ file # NoFile
        /\ pc # "read"
        /\ InRange(args.width)
        /\ InRange(args.height)) => "plan" \in events
    /\ JustPlanned =>
        \A i \in 1..6 :
            /\ Ds[i].offset + 4 > data.len => ~AcceptsAt(patches, Ds[i].offset)
            /\ (Ds[i].offset + 4 <= data.len /\ BytesEqual(data, Ds[i]))
                   => Accepts(patches, Ds[i])

\* an executable cut between the two table fields: the width field is
\* accepted, the height field is out of bounds
C8_Witness ==
    /\ JustPlanned
    /\ data.len = table_offset + 4
    /\ AcceptsAt(patches, table_offset)
    /\ ~AcceptsAt(patches, table_offset + 4)

(* C9: when create_patches accepts no descriptor, main returns status 1,   *)
(* which no dry run or committed run returns, without calling              *)
(* apply_patches, writing the executable or creating a backup.              *)
C9_EmptyPlanFails ==
    /\ []( ("plan" \in events /\ patches = <<>>) =>
              /\ pc = "exit"
              /\ status = "return 1"
              /\ events = {"plan"} )
    /\ []( "apply" \in events => status # "return 1" )
    /\ [][ ("plan" \in events' /\ patches' = <<>>) =>
              file' = file /\ backup' = backup ]_vars

\* a complete executable in which every descriptor is damaged
C9_Witness ==
    /\ "plan" \in events
    /\ patches = <<>>
    /\ data.len >= table_offset + 8
    /\ status = "return 1"

(* C10: the ranges of the six descriptors are pairwise disjoint; the       *)
(* accepted patches committed in any order give the buffer apply_patches    *)
(* gives, and every applied patch's range holds its replacement bytes.      *)
C10_OrderIrrelevant ==
    /\ \A i, j \in 1..6 :
          i # j => \/ Ds[i].offset + 4 <= Ds[j].offset
                   \/ Ds[j].offset + 4 <= Ds[i].offset
    /\ \A i \in 1..Len(patches) :
          i \notin todo =>
              Slice(data, patches[i].offset, patches[i].offset + 4)
                  = patches[i].replacement
    /\ todo = {} => data = apply_patches(file, patches, FALSE)

\* all six patches applied, in some order
C10_Witness ==
    /\ todo = {}
    /\ Len(patches) = 6
    /\ data # file

====
